---- MODULE Spec2Model ----
(***************************************************************************)
(* DriverMonitor (src/camera.py): calibration, blink and closure tracking, *)
(* blink-rate window, hysteresis state machine, face-loss tracker and      *)
(* alarm gate, driven by the main loop one frame at a time.                *)
(*                                                                         *)
(* Time is counted in whole seconds and time.time() never runs backwards;  *)
(* the clock readings taken while one frame is handled are one instant.    *)
(* Eye and mouth ratios are counted in hundredths (0.6 is 60).             *)
(***************************************************************************)
EXTENDS Integers, Sequences, FiniteSets

\* ------------------------------------------------------------------ bounds
\* the clock reading at construction, and the number of frames of a run
StartTime == 100
MaxFrames == 5

\* --------------------------------------------------------------- constants
MAR_THRESHOLD == 60
MICROSLEEP_TIME == 2
BLINK_WINDOW == 60
BLINK_RATE_THRESHOLD == 20
STATE_HOLD_TIME == 1
CALIBRATION_TIME == 5
FACE_LOST_TIME == 2
ALARM_COOLDOWN == 1

\* Python's None for a time, and for the threshold
None == -1
NoThreshold == << >>

\* ------------------------------------------------------------------ inputs
\* seconds between one frame and the next
Delta == {1, 2, 5, 60}
\* eye ratios and mouth ratios a frame can carry, in hundredths
Ears == {21, 39}
Mars == {30, 60, 80}

VARIABLES
    clock,               \* the value of the last time.time() reading
    blink_timestamps, eyes_closed_prev, eye_close_start,
    face_lost_start, state, state_change_time,
    ear_threshold, calibration_values, calibration_start,
    last_alarm_time,
    crashed,             \* an uncaught exception has ended the program
    frames,              \* number of frames processed
    \* the frame just processed
    op, now, in_ear, prev_state, blink_rate, microsleep,
    alarm_req, alarm_fired,
    \* history of the run
    fire_log, lost_since, closed_since, run_len, run_appends,
    cand, cand_since, onsets, spike, gap,
    \* alarm threads started and not yet finished
    alarm_threads

monitor == <<blink_timestamps, eyes_closed_prev, eye_close_start,
             face_lost_start, state, state_change_time,
             ear_threshold, calibration_values, calibration_start,
             last_alarm_time>>
observed == <<op, now, in_ear, prev_state, blink_rate, microsleep,
              alarm_req, alarm_fired>>
history == <<fire_log, lost_since, closed_since, run_len, run_appends,
             cand, cand_since, onsets, spike, gap>>
vars == <<clock, monitor, crashed, frames, observed, history, alarm_threads>>

\* ----------------------------------------------------------------- helpers
RECURSIVE Sum(_)
Sum(s) == IF s = << >> THEN 0 ELSE Head(s) + Sum(Tail(s))

Min(a, b) == IF a < b THEN a ELSE b

Last(s) == s[Len(s)]

\* the last two entries of a log
LastTwo(s) == IF Len(s) <= 2 THEN s ELSE SubSeq(s, Len(s) - 1, Len(s))

\* calibrate: 0.7 * sum(values) / len(values), as the fraction <<num, den>>
Threshold(values) == <<7 * Sum(values), 10 * Len(values)>>

\* a calibration that is not over when exactly CALIBRATION_TIME has passed
CalibrationDoneStrict(t, start) == t - start > CALIBRATION_TIME

\* calibrate: time.time() - self.calibration_start >= CALIBRATION_TIME
CalibrationDone(t, start) == t - start >= CALIBRATION_TIME

\* update_state: ear < self.ear_threshold
Below(ear, thr) == ear * thr[2] < thr[1]

\* a gate that also opens when exactly ALARM_COOLDOWN has passed
AlarmGateInclusive(t, last) == t - last >= ALARM_COOLDOWN

\* a gate that stays shut one second longer than ALARM_COOLDOWN
AlarmGateSlow(t, last) == t - last > ALARM_COOLDOWN + 1

\* a gate that compares with BLINK_WINDOW instead of ALARM_COOLDOWN
AlarmGateWindow(t, last) == t - last > BLINK_WINDOW

\* trigger_alarm: now - self.last_alarm_time > ALARM_COOLDOWN
AlarmGate(t, last) == t - last > ALARM_COOLDOWN

\* handle_face_lost: now - self.face_lost_start >= FACE_LOST_TIME
FaceLost(t, start) == t - start >= FACE_LOST_TIME

\* a blink counter that counts every closed frame
BlinkOnsetEveryFrame(closed, prev) == closed

\* update_state: ear < self.ear_threshold and not self.eyes_closed_prev
BlinkOnset(closed, prev) == closed /\ ~prev

\* a pruning that also drops a timestamp exactly BLINK_WINDOW old
RECURSIVE PruneInclusive(_, _)
PruneInclusive(ts, t) ==
    IF ts # << >> /\ t - Head(ts) >= BLINK_WINDOW THEN PruneInclusive(Tail(ts), t) ELSE ts

\* update_state: while blink_timestamps and now - blink_timestamps[0] > BLINK_WINDOW: popleft()
RECURSIVE Prune(_, _)
Prune(ts, t) ==
    IF ts # << >> /\ t - Head(ts) > BLINK_WINDOW THEN Prune(Tail(ts), t) ELSE ts

\* a microsleep test that misses a closure of exactly MICROSLEEP_TIME
MicrosleepStrict(start, t) == start # None /\ start # 0 /\ t - start > MICROSLEEP_TIME

\* update_state: self.eye_close_start and (now - self.eye_close_start) >= MICROSLEEP_TIME
Microsleep(start, t) == start # None /\ start # 0 /\ t - start >= MICROSLEEP_TIME

\* update_state: "DROWSY" if (blink_rate > BLINK_RATE_THRESHOLD or mar > MAR_THRESHOLD) else "NORMAL"
NewState(rate, mar) ==
    IF rate > BLINK_RATE_THRESHOLD \/ mar > MAR_THRESHOLD THEN "DROWSY" ELSE "NORMAL"

\* a hold that is over when exactly STATE_HOLD_TIME has passed
HoldElapsedInclusive(t, since) == t - since >= STATE_HOLD_TIME

\* update_state: now - self.state_change_time > STATE_HOLD_TIME
HoldElapsed(t, since) == t - since > STATE_HOLD_TIME

\* a handler that sounds the alarm and forgets to set the state
FaceLostStateKept(st) == st

\* handle_face_lost: self.state = "DANGER"
FaceLostState(st) == "DANGER"

\* an entry into DANGER that restarts the hold timer
DangerEntryStamped(since, t) == t

\* handle_face_lost, update_state: self.state = "DANGER" is the whole state
\* change, self.state_change_time keeps its value
DangerEntry(since, t) == since

\* a no-face frame that ends the closure episode
FaceLostClosureEnded(start) == None

\* handle_face_lost: self.eye_close_start is not assigned
FaceLostClosure(start) == start

\* an open-eye frame that forgets to clear the closure start
ReopenedKept(start) == start

\* update_state, eyes open: self.eye_close_start = None
Reopened(start) == None

\* a trigger_alarm that joins the thread it started
Joined(threads) == threads = 0

\* trigger_alarm: Thread(..., daemon=True).start() is never joined, the
\* frame loop goes on whatever the number of running alarm threads
Detached(threads) == TRUE

\* a main loop that leaves the loss episode open when the face is back
FaceSeenKept(start) == start

\* main loop, face present: monitor.face_lost_start = None
FaceSeen(start) == None

\* a main loop that calibrates again out of DANGER
CalibratingOrDanger(st) == st \in {"CALIBRATING", "DANGER"}

\* main loop: monitor.state == "CALIBRATING"
Calibrating(st) == st = "CALIBRATING"

\* ----------------------------------------------------------------- history
\* the start of the run of update_state frames that propose `proposal`, the
\* frame at t being the latest of them; Long once it is STATE_HOLD_TIME old
Long == None - 1
Since(last, since, proposal, t) == IF last = proposal THEN since ELSE t
Held(since, t) == IF since = Long \/ t - since >= STATE_HOLD_TIME THEN Long ELSE since

\* spike: "armed" after an update_state frame off the microsleep path with
\* blink rate and mouth ratio at or below their thresholds that ends in
\* NORMAL; "spiked" after a next such frame within MaxGap whose mouth ratio
\* is above the threshold; "after" on the like frames with mouth ratio at or
\* below the threshold that follow within MaxGap
MaxGap == STATE_HOLD_TIME

\* -------------------------------------------------------------------- Init
Init ==
    /\ clock = StartTime
    /\ blink_timestamps = << >>
    /\ eyes_closed_prev = FALSE
    /\ eye_close_start = None
    /\ face_lost_start = None
    /\ state = "CALIBRATING"
    /\ state_change_time = StartTime
    /\ ear_threshold = NoThreshold
    /\ calibration_values = << >>
    /\ calibration_start = StartTime
    /\ last_alarm_time = 0
    /\ crashed = FALSE
    /\ frames = 0
    /\ op = "init" /\ now = StartTime /\ in_ear = 0
    /\ blink_rate = 0 /\ microsleep = FALSE /\ prev_state = "CALIBRATING"
    /\ alarm_req = FALSE /\ alarm_fired = FALSE
    /\ fire_log = << >> /\ lost_since = None /\ closed_since = None
    /\ run_len = 0 /\ run_appends = 0
    /\ cand = "none" /\ cand_since = None /\ onsets = << >> /\ spike = "idle"
    /\ gap = FALSE /\ alarm_threads = 0

\* ----------------------------------------------------------------- actions
\* trigger_alarm, called at clock reading t
TriggerAlarm(t) ==
    /\ clock' = t
    /\ alarm_req' = TRUE
    /\ IF AlarmGate(t, last_alarm_time)
       THEN /\ last_alarm_time' = t
            /\ alarm_fired' = TRUE
            /\ fire_log' = LastTwo(Append(fire_log, t))
            /\ alarm_threads' = alarm_threads + 1
       ELSE /\ last_alarm_time' = last_alarm_time
            /\ alarm_fired' = FALSE
            /\ fire_log' = fire_log
            /\ alarm_threads' = alarm_threads

NoAlarm(t) ==
    /\ clock' = t
    /\ alarm_req' = FALSE
    /\ alarm_fired' = FALSE
    /\ UNCHANGED <<last_alarm_time, fire_log, alarm_threads>>

\* main loop, no face: monitor.handle_face_lost()
HandleFaceLost(d) ==
    LET t == clock + d IN
    /\ ~crashed /\ frames < MaxFrames /\ Detached(alarm_threads)
    /\ frames' = frames + 1
    /\ op' = "handle_face_lost" /\ now' = t
    /\ IF face_lost_start = None
       THEN /\ face_lost_start' = t
            /\ UNCHANGED <<state, state_change_time>>
            /\ NoAlarm(t)
       ELSE /\ face_lost_start' = face_lost_start
            /\ IF FaceLost(t, face_lost_start)
               THEN /\ state' = FaceLostState(state)
                    /\ state_change_time' = DangerEntry(state_change_time, t)
                    /\ TriggerAlarm(t)
               ELSE /\ UNCHANGED <<state, state_change_time>>
                    /\ NoAlarm(t)
    /\ eye_close_start' = FaceLostClosure(eye_close_start)
    /\ lost_since' = IF op = "handle_face_lost" THEN lost_since ELSE t
    /\ spike' = "idle"
    /\ gap' = (closed_since # None)
    /\ microsleep' = FALSE /\ prev_state' = state
    /\ UNCHANGED <<blink_timestamps, eyes_closed_prev,
                   ear_threshold, calibration_values,
                   calibration_start, crashed, in_ear, blink_rate,
                   closed_since, run_len, run_appends, cand, cand_since,
                   onsets>>

\* main loop, face present, state CALIBRATING: monitor.calibrate(ear)
Calibrate(d, ear) ==
    LET t == clock + d
        values == Append(calibration_values, ear) IN
    /\ ~crashed /\ frames < MaxFrames /\ Detached(alarm_threads)
    /\ Calibrating(state)
    /\ frames' = frames + 1
    /\ op' = "calibrate" /\ now' = t /\ in_ear' = ear
    /\ face_lost_start' = FaceSeen(face_lost_start)
    /\ calibration_values' = values
    /\ IF CalibrationDone(t, calibration_start)
       THEN /\ ear_threshold' = Threshold(values)
            /\ state' = "NORMAL"
            /\ state_change_time' = t
            /\ clock' = t
       ELSE /\ UNCHANGED <<ear_threshold, state, state_change_time>>
            /\ clock' = t
    /\ lost_since' = None /\ spike' = "idle"
    /\ alarm_req' = FALSE /\ alarm_fired' = FALSE
    /\ microsleep' = FALSE /\ prev_state' = state
    /\ UNCHANGED <<blink_timestamps, eyes_closed_prev, eye_close_start,
                   calibration_start, last_alarm_time, crashed,
                   blink_rate, fire_log, closed_since, run_len, run_appends,
                   cand, cand_since, onsets, gap, alarm_threads>>

\* main loop, face present, state not CALIBRATING, threshold never set:
\* update_state evaluates ear < None, the TypeError ends the program
UpdateStateCrash(d, ear, mar) ==
    LET t == clock + d IN
    /\ ~crashed /\ frames < MaxFrames /\ Detached(alarm_threads)
    /\ ~Calibrating(state)
    /\ ear_threshold = NoThreshold
    /\ frames' = frames + 1
    /\ op' = "update_state" /\ now' = t /\ in_ear' = 0
    /\ face_lost_start' = FaceSeen(face_lost_start)
    /\ crashed' = TRUE
    /\ clock' = t
    /\ lost_since' = None /\ spike' = "idle"
    /\ alarm_req' = FALSE /\ alarm_fired' = FALSE
    /\ microsleep' = FALSE /\ prev_state' = state
    /\ UNCHANGED <<blink_timestamps, eyes_closed_prev, eye_close_start,
                   state, state_change_time, ear_threshold,
                   calibration_values, calibration_start, last_alarm_time,
                   blink_rate, fire_log, closed_since, run_len, run_appends,
                   cand, cand_since, onsets, gap, alarm_threads>>

\* main loop, face present, state not CALIBRATING: monitor.update_state(ear, mar)
UpdateState(d, ear, mar) ==
    LET t == clock + d
        closed == Below(ear, ear_threshold)
        onset == BlinkOnset(closed, eyes_closed_prev)
        appended == IF onset THEN Append(blink_timestamps, t) ELSE blink_timestamps
        start == IF closed THEN (IF onset THEN t ELSE eye_close_start)
                 ELSE Reopened(eye_close_start)
        pruned == Prune(appended, t)
        rate == Len(pruned)
        asleep == Microsleep(start, t)
        new_state == NewState(rate, mar)
        low == ~asleep /\ rate <= BLINK_RATE_THRESHOLD /\ mar <= MAR_THRESHOLD
        high == ~asleep /\ rate <= BLINK_RATE_THRESHOLD /\ mar > MAR_THRESHOLD
    IN
    /\ ~crashed /\ frames < MaxFrames /\ Detached(alarm_threads)
    /\ ~Calibrating(state)
    /\ ear_threshold # NoThreshold
    /\ frames' = frames + 1
    /\ op' = "update_state" /\ now' = t /\ in_ear' = 0
    /\ face_lost_start' = FaceSeen(face_lost_start)
    /\ blink_timestamps' = pruned
    /\ eyes_closed_prev' = closed
    /\ eye_close_start' = start
    /\ blink_rate' = rate
    /\ microsleep' = asleep
    /\ prev_state' = state
    /\ IF asleep
       THEN /\ state' = "DANGER"
            /\ TriggerAlarm(t)
            /\ state_change_time' = DangerEntry(state_change_time, t)
       ELSE /\ NoAlarm(t)
            /\ IF new_state # state
               THEN IF HoldElapsed(t, state_change_time)
                    THEN state' = new_state /\ state_change_time' = t
                    ELSE UNCHANGED <<state, state_change_time>>
               ELSE state' = state /\ state_change_time' = t
    \* history
    /\ lost_since' = None
    /\ closed_since' = IF closed THEN (IF closed_since = None THEN t ELSE closed_since)
                       ELSE None
    /\ gap' = (closed /\ closed_since # None /\ gap)
    /\ run_len' = IF closed THEN Min(run_len + 1, 3) ELSE 0
    /\ run_appends' = IF closed THEN (IF closed_since = None THEN 0 ELSE run_appends)
                                     + (IF onset THEN 1 ELSE 0)
                      ELSE 0
    /\ onsets' = IF onset THEN Append(onsets, t) ELSE onsets
    /\ cand' = IF asleep THEN "none" ELSE new_state
    /\ cand_since' = IF asleep THEN None ELSE Held(Since(cand, cand_since, new_state, t), t)
    /\ spike' = CASE low /\ spike \in {"spiked", "after"} /\ t - now <= MaxGap -> "after"
                  [] low /\ state' = "NORMAL" -> "armed"
                  [] high /\ spike \in {"armed", "after"} /\ t - now <= MaxGap -> "spiked"
                  [] OTHER -> "idle"
    /\ UNCHANGED <<ear_threshold, calibration_values, calibration_start, crashed>>

Next ==
    \/ \E d \in Delta : HandleFaceLost(d)
    \/ \E d \in Delta, ear \in Ears : Calibrate(d, ear)
    \/ \E d \in Delta, ear \in Ears, mar \in Mars : UpdateStateCrash(d, ear, mar)
    \/ \E d \in Delta, ear \in Ears, mar \in Mars :
           UpdateState(d, ear, mar)

Spec == Init /\ [][Next]_vars

\* trigger_alarm: the thread's lambda, winsound.Beep(1200, 700), returns
AlarmTask ==
    /\ alarm_threads > 0
    /\ alarm_threads' = alarm_threads - 1
    /\ UNCHANGED <<clock, monitor, crashed, frames, observed, history>>

NextAlarm == Next \/ AlarmTask

\* the frame loop together with the alarm threads it has started
SpecAlarm == Init /\ [][NextAlarm]_vars

TypeOK ==
    /\ state \in {"CALIBRATING", "NORMAL", "DROWSY", "DANGER"}
    /\ crashed \in BOOLEAN
    /\ frames \in 0..MaxFrames
\* ------------------------------------------------------------------ claims
\* C1: outside CALIBRATING the threshold has been set, and update_state is
\* never run while the threshold is unset, also when no-face frames occur
\* during calibration.
C1_ThresholdSetBeforeUse ==
    /\ state # "CALIBRATING" => ear_threshold # NoThreshold
    /\ op = "update_state" => ear_threshold # NoThreshold

\* C2: an update_state frame on which the closure episode has lasted at least
\* MICROSLEEP_TIME ends in DANGER with an alarm request, whatever the state
\* before the frame, the hold timer, the mouth ratio and the blink rate.
C2_MicrosleepOverride ==
    (op = "update_state" /\ ~crashed /\ closed_since # None
        /\ now - closed_since >= MICROSLEEP_TIME)
    => (state = "DANGER" /\ alarm_req)

\* a closure of exactly MICROSLEEP_TIME forces DANGER out of DROWSY
C2_Witness ==
    /\ op = "update_state" /\ closed_since # None
    /\ now - closed_since = MICROSLEEP_TIME
    /\ prev_state = "DROWSY" /\ state = "DANGER" /\ alarm_req

\* C3: a change of state committed by update_state to NORMAL or DROWSY has
\* been proposed by an update_state frame at least STATE_HOLD_TIME earlier
\* and by every update_state frame since.
C3_CommitNeedsHeldCandidate ==
    (op = "update_state" /\ ~crashed /\ ~microsleep /\ state # prev_state)
    => cand_since = Long

\* C4: two alarm firings are more than ALARM_COOLDOWN apart, and a firing
\* is a request.
C4_AlarmCooldown ==
    /\ Len(fire_log) = 2 => fire_log[2] - fire_log[1] > ALARM_COOLDOWN
    /\ alarm_fired => alarm_req /\ fire_log # << >> /\ Last(fire_log) = clock
    /\ fire_log # << >> => Last(fire_log) = last_alarm_time

\* after two firings, a request exactly ALARM_COOLDOWN after the last one is dropped
C4_Witness ==
    /\ Len(fire_log) = 2
    /\ alarm_req /\ ~alarm_fired
    /\ clock - fire_log[2] = ALARM_COOLDOWN

\* C5: a no-face frame forces DANGER, with an alarm request, exactly when at
\* least FACE_LOST_TIME has passed since the first frame of the current
\* uninterrupted run of no-face frames; otherwise it leaves the state alone.
C5_FaceLoss ==
    op = "handle_face_lost" =>
        /\ alarm_req <=> now - lost_since >= FACE_LOST_TIME
        /\ alarm_req => state = "DANGER"
        /\ ~alarm_req => state = prev_state

\* after calibration, a run of exactly FACE_LOST_TIME forces DANGER out of NORMAL
C5_Witness ==
    /\ op = "handle_face_lost" /\ alarm_req
    /\ now - lost_since = FACE_LOST_TIME
    /\ lost_since - StartTime > CALIBRATION_TIME
    /\ prev_state = "NORMAL" /\ state = "DANGER"
\* C6: a calibrate frame appends its sample; before CALIBRATION_TIME has
\* passed it leaves the threshold unset and the state CALIBRATING, and from
\* CALIBRATION_TIME on (inclusive) it sets the threshold to 0.7 times the
\* mean of all samples, this frame's included, the state to NORMAL and
\* state_change_time to the current instant.
C6_CalibrationStep ==
    [][op' = "calibrate" =>
        /\ state = "CALIBRATING"
        /\ calibration_values' = Append(calibration_values, in_ear')
        /\ IF now' - calibration_start < CALIBRATION_TIME
           THEN ear_threshold' = NoThreshold /\ state' = "CALIBRATING"
           ELSE /\ ear_threshold' # NoThreshold
                /\ 10 * Len(calibration_values') * ear_threshold'[1]
                     = 7 * Sum(calibration_values') * ear_threshold'[2]
                /\ state' = "NORMAL"
                /\ state_change_time' = now']_vars

\* samples 0.21 and 0.39, the second exactly CALIBRATION_TIME after the
\* start: threshold 0.21
C6_Witness ==
    /\ op = "calibrate" /\ state = "NORMAL"
    /\ now - calibration_start = CALIBRATION_TIME
    /\ calibration_values = <<21, 39>>
    /\ ear_threshold # NoThreshold
    /\ 100 * ear_threshold[1] = 21 * 100 * ear_threshold[2]
    /\ state_change_time = now

\* C7: once set, the threshold never changes, the state never returns to
\* CALIBRATING and calibrate never runs again.
C7_ThresholdImmutable ==
    [][ear_threshold # NoThreshold =>
        /\ ear_threshold' = ear_threshold
        /\ state' # "CALIBRATING"
        /\ op' # "calibrate"]_vars

\* a microsleep frame out of DANGER, two frames or more after the threshold was set
C7_Witness ==
    /\ ear_threshold # NoThreshold
    /\ op = "update_state" /\ microsleep
    /\ prev_state = "DANGER" /\ state = "DANGER"

\* C8: a run of update_state frames with the eye ratio below the threshold
\* appends exactly one timestamp, the instant of its first frame; outside
\* such a run nothing has been appended for it.
C8_LeadingEdgeBlink ==
    /\ closed_since # None =>
          /\ run_appends = 1
          /\ onsets # << >> /\ Last(onsets) = closed_since
    /\ closed_since = None => run_appends = 0

\* the second closure, two frames long or more, has appended one timestamp
C8_Witness ==
    /\ op = "update_state" /\ closed_since # None
    /\ run_len >= 2 /\ run_appends = 1
    /\ Len(onsets) = 2 /\ blink_timestamps = onsets

\* C9: after update_state at time now the blink rate it returns is the number
\* of blink onsets at most BLINK_WINDOW old, and blink_timestamps holds no
\* older entry, also on the microsleep return.
C9_BlinkWindow ==
    (op = "update_state" /\ ~crashed) =>
        /\ blink_rate = Cardinality({i \in DOMAIN onsets : now - onsets[i] <= BLINK_WINDOW})
        /\ blink_rate = Len(blink_timestamps)
        /\ \A i \in DOMAIN blink_timestamps : now - blink_timestamps[i] <= BLINK_WINDOW

\* a microsleep frame that counts an onset exactly BLINK_WINDOW old and drops an older one
C9_Witness ==
    /\ op = "update_state" /\ microsleep
    /\ Len(onsets) = 2 /\ blink_rate = 1
    /\ now - onsets[1] > BLINK_WINDOW
    /\ now - onsets[2] = BLINK_WINDOW

\* C10: in NORMAL, with frames at most 1 s apart, blink rate at most
\* BLINK_RATE_THRESHOLD and no microsleep, a single frame with mouth ratio
\* above MAR_THRESHOLD between frames at or below it leaves the state NORMAL,
\* on that frame and on the frames after it.
C10_SpikeAbsorbed == spike \in {"spiked", "after"} => state = "NORMAL"

\* the frame after the spike, still NORMAL
C10_Witness == spike = "after" /\ state = "NORMAL" /\ prev_state = "NORMAL"
\* C11: out of NORMAL, on update_state frames off the microsleep path that
\* propose DROWSY, the state is DROWSY exactly from the first frame at which
\* DROWSY has been proposed for at least STATE_HOLD_TIME, and NORMAL on
\* every earlier frame.
C11_DrowsyOnlyAfterHold ==
    (op = "update_state" /\ ~crashed /\ ~microsleep
        /\ prev_state = "NORMAL" /\ cand = "DROWSY")
    => (state = "DROWSY" <=> cand_since = Long)

C13_AlarmGateRearms ==
    /\ (alarm_req /\ ~alarm_fired) =>
          /\ fire_log # << >>
          /\ clock - Last(fire_log) <= ALARM_COOLDOWN
          /\ last_alarm_time = Last(fire_log)
    /\ (alarm_req /\ alarm_fired) =>
          /\ last_alarm_time = clock
          /\ Len(fire_log) = 2 => clock - fire_log[1] > ALARM_COOLDOWN
    /\ fire_log = << >> => last_alarm_time = 0

\* while DANGER persists the alarm fires again two seconds after a firing
C13_Witness ==
    /\ alarm_req /\ alarm_fired /\ prev_state = "DANGER"
    /\ Len(fire_log) = 2
    /\ fire_log[2] - fire_log[1] = ALARM_COOLDOWN + 1

\* C15: a frame that takes the machine into DANGER from another state makes
\* an alarm request that fires.
C15_EntryFires ==
    (prev_state # "DANGER" /\ state = "DANGER") => (alarm_req /\ alarm_fired)

\* a second entry into DANGER fires, three seconds after the last firing
C15_Witness ==
    /\ prev_state # "DANGER" /\ state = "DANGER" /\ alarm_fired
    /\ Len(fire_log) = 2
    /\ fire_log[2] - fire_log[1] = FACE_LOST_TIME + ALARM_COOLDOWN
\* C14: firing the alarm starts one thread and the frame is complete in the
\* same step; a step of an alarm thread changes no variable of the monitor,
\* nor the clock reading, nor the loop's position; and a frame of every kind
\* the monitor's state allows is enabled whatever the number of alarm
\* threads still running.
C14_AlarmTaskIsolated ==
    /\ [][/\ alarm_threads' < alarm_threads =>
                UNCHANGED <<clock, monitor, crashed, frames>>
          /\ alarm_threads' > alarm_threads =>
                alarm_fired' /\ frames' = frames + 1]_vars
    /\ [](~crashed /\ frames < MaxFrames =>
            /\ ENABLED (\E d \in Delta : HandleFaceLost(d))
            /\ state = "CALIBRATING" =>
                  ENABLED (\E d \in Delta, ear \in Ears : Calibrate(d, ear))
            /\ (state # "CALIBRATING" /\ ear_threshold # NoThreshold) =>
                  ENABLED (\E d \in Delta, ear \in Ears, mar \in Mars :
                              UpdateState(d, ear, mar)))

\* a frame has left DANGER while the thread of the last alarm was running,
\* and another thread had finished before
C14_Witness ==
    /\ alarm_threads = 1 /\ Len(fire_log) = 2
    /\ op = "update_state" /\ ~alarm_req
    /\ prev_state = "DANGER" /\ state = "NORMAL"

\* C16: no-face frames and entries into DANGER leave state_change_time as it
\* was, and in a calibrated monitor the face frame that follows a no-face
\* frame which forced DANGER, when it is not a microsleep frame, commits
\* that frame's proposal, NORMAL or DROWSY, on that very frame.
C16_NoHoldAfterFaceLoss ==
    [][/\ (op' = "handle_face_lost" \/ microsleep') =>
             state_change_time' = state_change_time
       /\ (/\ op = "handle_face_lost" /\ alarm_req /\ state = "DANGER"
           /\ ear_threshold # NoThreshold
           /\ op' = "update_state" /\ ~microsleep') =>
             /\ state' \in {"NORMAL", "DROWSY"} /\ state' = cand'
             /\ state_change_time' = now']_vars

\* the face is back one second after a face loss forced DANGER in a monitor
\* that never saw a closure, and the frame commits DROWSY
C16_Witness ==
    /\ op = "update_state" /\ prev_state = "DANGER" /\ state = "DROWSY"
    /\ onsets = << >> /\ fire_log # << >>
    /\ now - Last(fire_log) = 1 /\ state_change_time = now

\* C17: a no-face frame leaves the blink tracker, the calibration data and
\* state_change_time unchanged, and changes last_alarm_time only by a firing;
\* and an update_state frame with closed eyes, in a closure episode that a
\* no-face frame interrupted, forces DANGER and requests the alarm as soon as
\* MICROSLEEP_TIME has passed since the onset.
C17_FaceLostFrameEffect ==
    /\ [][op' = "handle_face_lost" =>
            /\ UNCHANGED <<eyes_closed_prev, eye_close_start, blink_timestamps,
                           ear_threshold, calibration_values,
                           calibration_start, state_change_time>>
            /\ last_alarm_time' # last_alarm_time => alarm_fired']_vars
    /\ []((gap /\ op = "update_state" /\ now - closed_since >= MICROSLEEP_TIME)
            => (microsleep /\ state = "DANGER" /\ alarm_req
                /\ eye_close_start = closed_since))

\* the eyes closed, the face was lost, and the first face frame after the
\* gap, exactly MICROSLEEP_TIME after the onset, forces DANGER
C17_Witness ==
    /\ gap /\ op = "update_state" /\ run_len = 2
    /\ now - closed_since = MICROSLEEP_TIME
    /\ microsleep /\ prev_state = "NORMAL" /\ state = "DANGER"

\* C18: an alarm request, and so a firing, is made only on a frame that ends
\* in DANGER; calibrate and the hysteresis path of update_state make none.
C18_AlarmOnlyInDanger ==
    /\ alarm_req => state = "DANGER"
    /\ alarm_fired => alarm_req
    /\ op = "calibrate" => ~alarm_req
    /\ (op = "update_state" /\ ~microsleep) => ~alarm_req

\* a no-face frame during calibration sounds the alarm and ends in DANGER
C18_Witness ==
    /\ op = "handle_face_lost" /\ alarm_fired
    /\ prev_state = "CALIBRATING" /\ state = "DANGER"

\* C19: eye_close_start is set exactly when eyes_closed_prev is true,
\* blink_timestamps is in non-decreasing order, and during a closure episode
\* eye_close_start is the timestamp appended last.
C19_TrackerConsistent ==
    /\ eye_close_start # None <=> eyes_closed_prev
    /\ \A i, j \in DOMAIN blink_timestamps :
          i <= j => blink_timestamps[i] <= blink_timestamps[j]
    /\ eyes_closed_prev => (onsets # << >> /\ eye_close_start = Last(onsets))

\* a second closure episode is active and both onsets are in the window
C19_Witness ==
    /\ eyes_closed_prev /\ Len(blink_timestamps) = 2
    /\ blink_timestamps[1] < blink_timestamps[2]
    /\ eye_close_start = blink_timestamps[2] /\ run_len >= 2
====
